---- MODULE Spec2Model ----
(***************************************************************************)
(* A model of src/main.py: the two extraction jobs of the Cloudflare       *)
(* analytics utility (FirewallEventManager.fetch_and_save_events and       *)
(* PageShieldManager.fetch_and_save_logs) and the fetch layer they drive   *)
(* (CloudflareAPI.get_zones, fetch_page_shield_logs, fetch_firewall_events,*)
(* fetch_all_firewall_events).  The server is the environment: every       *)
(* request is answered by a response drawn from a bounded set.             *)
(***************************************************************************)
EXTENDS Integers, Sequences, FiniteSets, TLC

\* Bounds of the model.
MaxPages == 2      \* largest page / total_pages number a response reports
MaxItems == 1      \* largest number of items in one page or one event reply
MaxZones == 2      \* largest number of zones the account holds
MaxReq == MaxPages + 1   \* page requests of one call the model follows

\* Program constants.
WindowHours == 12  \* timedelta(hours=... * 12)
WindowCount == 2   \* range(2)

\* Values of datetime.now() at the start of fetch_all_firewall_events, in hours.
Clock == {100, 101}

VARIABLES
  job,       \* "events": fetch_and_save_events, "shield": fetch_and_save_logs
  specific,  \* PageShieldManager.specific_zone is set
  pc,        \* position of the job
  zones,     \* the job's zones
  zi,        \* index of the zone the job is at
  off,       \* hour_offset of fetch_all_firewall_events
  now,       \* now of fetch_all_firewall_events
  page,      \* page of the running paginated call
  acc,       \* zones / logs accumulated by the running paginated call
  hist,      \* history: the page requests of the running paginated call, each
             \* with the page it asked for (req) and the response it got (r)
  records,   \* events of fetch_all_firewall_events / all_logs of the shield job
  calls,     \* history: the calls of fetch_firewall_events, with their filter
  okSum,     \* history: the events the successful calls of fetch_firewall_events returned
  failed,    \* history: the calls of fetch_firewall_events that failed
  raised,    \* history: a call of fetch_firewall_events raised
  resp,      \* history: the response the last call of fetch_firewall_events got
  file,      \* the output file
  writes,    \* history: calls of save_events_to_csv / save_logs_to_csv
  sawFail    \* history: a page request of an earlier zone of the shield job failed

vars == <<job, specific, pc, zones, zi, off, now, page, acc, hist, records,
          calls, okSum, failed, raised, resp, file, writes, sawFail>>

-----------------------------------------------------------------------------
\* Values

\* An optional member of a JSON object: {} when absent, {v} when present.
Opt(S) == {{}} \cup {{v} : v \in S}

\* dict.get(key, default)
Get(opt, default) == IF opt = {} THEN default ELSE CHOOSE v \in opt : TRUE

\* The items the server holds for page p when that page has n items.
PageItems(p, n) == [i \in 1..n |-> <<p, i>>]

\* The n events of one reply of the query endpoint.
Events(n) == [i \in 1..n |-> <<0, i>>]

\* The zone PageShieldManager is restricted to by SPECIFIC_ZONE.
SpecificZone == <<0, 1>>

FailedResponses ==
  [kind : {"neterr", "http"}, success : {"absent"}, n : {0}, page : {{}}, total : {{}}]

\* Responses of the zones endpoint: {result, result_info: {page, total_pages}}.
ZoneResponses ==
  FailedResponses \cup
  [kind : {"ok"}, success : {"true"}, n : 0..MaxItems,
   page : Opt(1..MaxPages), total : Opt(1..MaxPages)]

\* Responses of the page-shield endpoint: {success, result, result_info: {total_pages}}.
ShieldResponses ==
  FailedResponses \cup
  [kind : {"ok"}, success : {"absent", "true", "false"}, n : 0..MaxItems,
   page : {{}}, total : Opt(1..MaxPages)]

\* Responses of the query endpoint: a failure, or a JSON object whose members
\* data, viewer, zones and zones[0].firewallEventsAdaptive are absent, null or set.
NoQuery == [kind |-> "none", data |-> "absent", viewer |-> "absent",
            zones |-> "absent", fea |-> "absent", n |-> 0]

QueryResponses ==
  [kind : {"neterr", "http", "notjson"}, data : {"absent"}, viewer : {"absent"},
   zones : {"absent"}, fea : {"absent"}, n : {0}]
  \cup [kind : {"json"}, data : {"absent", "null"}, viewer : {"absent"},
        zones : {"absent"}, fea : {"absent"}, n : {0}]
  \cup [kind : {"json"}, data : {"obj"}, viewer : {"absent", "null"},
        zones : {"absent"}, fea : {"absent"}, n : {0}]
  \cup [kind : {"json"}, data : {"obj"}, viewer : {"obj"},
        zones : {"absent", "null", "empty"}, fea : {"absent"}, n : {0}]
  \cup [kind : {"json"}, data : {"obj"}, viewer : {"obj"},
        zones : {"some"}, fea : {"absent", "null"}, n : {0}]
  \cup [kind : {"json"}, data : {"obj"}, viewer : {"obj"},
        zones : {"some"}, fea : {"list"}, n : 0..MaxItems]

-----------------------------------------------------------------------------
\* get_zones_iter, but a failed request drops the zones accumulated so far.
get_zones_drop(pg, zs, r) ==
  IF r.kind # "ok"
  THEN [page |-> pg, acc |-> <<>>, brk |-> TRUE]
  ELSE LET zs2 == zs \o PageItems(pg, r.n)
       IN  IF Get(r.page, 1) >= Get(r.total, 1)
           THEN [page |-> pg, acc |-> zs2, brk |-> TRUE]
           ELSE [page |-> pg + 1, acc |-> zs2, brk |-> FALSE]

\* CloudflareAPI.get_zones: one iteration of its loop, on response r to the
\* request for page pg.  The loop ends on a failed request and when the page
\* the response reports has reached the total_pages it reports.
get_zones_iter(pg, zs, r) ==
  IF r.kind # "ok"
  THEN [page |-> pg, acc |-> zs, brk |-> TRUE]
  ELSE LET zs2 == zs \o PageItems(pg, r.n)
       IN  IF Get(r.page, 1) >= Get(r.total, 1)
           THEN [page |-> pg, acc |-> zs2, brk |-> TRUE]
           ELSE [page |-> pg + 1, acc |-> zs2, brk |-> FALSE]

\* not_success, but only a flag that is present and false counts.
success_absent_ok(r) == r.success = "false"

\* CloudflareAPI.fetch_page_shield_logs: not data.get("success", False).
not_success(r) == r.success # "true"

\* CloudflareAPI.fetch_page_shield_logs: one iteration of its loop.
fetch_page_shield_logs_iter(pg, logs, r) ==
  IF r.kind # "ok" THEN [page |-> pg, acc |-> logs, brk |-> TRUE]
  ELSE IF not_success(r) THEN [page |-> pg, acc |-> logs, brk |-> TRUE]
  ELSE IF r.n = 0 THEN [page |-> pg, acc |-> logs, brk |-> TRUE]
  ELSE LET logs2 == logs \o PageItems(pg, r.n)
       IN  IF pg >= Get(r.total, 1)
           THEN [page |-> pg, acc |-> logs2, brk |-> TRUE]
           ELSE [page |-> pg + 1, acc |-> logs2, brk |-> FALSE]

\* CloudflareAPI.fetch_firewall_events on response r: "list" with n events,
\* "none" when it returns None, "raise" when an exception leaves it.
fetch_firewall_events(r) ==
  IF r.kind # "json" THEN [tag |-> "list", n |-> 0]
  ELSE IF r.data = "null" THEN [tag |-> "raise", n |-> 0]
  ELSE IF r.data = "absent" THEN [tag |-> "list", n |-> 0]
  ELSE IF r.viewer = "null" THEN [tag |-> "raise", n |-> 0]
  ELSE IF r.viewer = "absent" THEN [tag |-> "list", n |-> 0]
  ELSE IF r.zones \in {"absent", "null", "empty"} THEN [tag |-> "list", n |-> 0]
  ELSE IF r.fea = "absent" THEN [tag |-> "list", n |-> 0]
  ELSE IF r.fea = "null" THEN [tag |-> "none", n |-> 0]
  ELSE [tag |-> "list", n |-> r.n]

\* hour_start, but one window too early.
hour_start_wide(t, o) == t - (o + 2) * WindowHours

\* fetch_all_firewall_events: the bounds of the window of hour_offset o.
hour_start(t, o) == t - (o + 1) * WindowHours

hour_end(t, o) == t - o * WindowHours

\* The instants the filter {datetime_geq, datetime_leq} of call c selects.
Covers(c, t) == c.geq <= t /\ t <= c.leq

\* window_iter, but a fetch that raises ends the loop over the pairs.
window_iter_abort(evs, out) ==
  IF out.tag = "list"
  THEN [events |-> evs \o Events(out.n), abort |-> FALSE]
  ELSE [events |-> evs, abort |-> TRUE]

\* fetch_all_firewall_events: the body of the try of one (zone, window) pair.
\* events.extend(None) raises TypeError, which the except clause catches.
window_iter(evs, out) ==
  IF out.tag = "list"
  THEN [events |-> evs \o Events(out.n), abort |-> FALSE]
  ELSE [events |-> evs, abort |-> FALSE]

\* no_zones, but the test never fires.
never_empty(zs) == FALSE

\* if not zones: return
no_zones(zs) == zs = <<>>

\* no_records, but the test never fires.
always_empty(rs) == FALSE

\* if not events: return / if not all_logs: return
no_records(rs) == rs = <<>>

\* save_events_to_csv / save_logs_to_csv: the file opened with "w" is replaced.
OldFile == [written |-> FALSE, rows |-> <<>>]

save_to_csv(rs) == [written |-> TRUE, rows |-> rs]

-----------------------------------------------------------------------------
Init ==
  /\ job \in {"events", "shield"}
  /\ specific \in BOOLEAN
  /\ (job = "events" => specific = FALSE)
  /\ pc = "start"
  /\ zones = <<>>
  /\ zi = 1
  /\ off = 0
  /\ now = 0
  /\ page = 1
  /\ acc = <<>>
  /\ hist = <<>>
  /\ records = <<>>
  /\ calls = <<>>
  /\ okSum = 0
  /\ failed = 0
  /\ raised = FALSE
  /\ resp = NoQuery
  /\ file = OldFile
  /\ writes = 0
  /\ sawFail = FALSE

\* fetch_and_save_logs with specific_zone set: zones is that one zone.
UseSpecificZone ==
  /\ pc = "start" /\ job = "shield" /\ specific
  /\ zones' = <<SpecificZone>>
  /\ pc' = "gotzones"
  /\ UNCHANGED <<job, specific, zi, off, now, page, acc, hist, records, calls,
                 okSum, failed, raised, resp, file, writes, sawFail>>

\* The job calls get_zones.
CallGetZones ==
  /\ pc = "start" /\ ~specific
  /\ pc' = "zones"
  /\ page' = 1 /\ acc' = <<>> /\ hist' = <<>>
  /\ UNCHANGED <<job, specific, zones, zi, off, now, records, calls, okSum, failed, raised,
                 resp, file, writes, sawFail>>

\* One iteration of the loop of get_zones; on break the job has its zones.
ZonesRequest ==
  /\ pc = "zones" /\ Len(hist) < MaxReq
  /\ \E r \in ZoneResponses :
       LET s == get_zones_iter(page, acc, r)
       IN  /\ Len(s.acc) <= MaxZones
           /\ page' = s.page
           /\ acc' = s.acc
           /\ hist' = Append(hist, [req |-> page, r |-> r])
           /\ pc' = IF s.brk THEN "gotzones" ELSE "zones"
           /\ zones' = IF s.brk THEN s.acc ELSE zones
  /\ UNCHANGED <<job, specific, zi, off, now, records, calls, okSum, failed, raised, resp,
                 file, writes, sawFail>>

\* if not zones: return
ReturnNoZones ==
  /\ pc = "gotzones" /\ no_zones(zones)
  /\ pc' = "end"
  /\ UNCHANGED <<job, specific, zones, zi, off, now, page, acc, hist, records,
                 calls, okSum, failed, raised, resp, file, writes, sawFail>>

\* fetch_all_firewall_events is entered: now is read once.
BeginEvents ==
  /\ pc = "gotzones" /\ ~no_zones(zones) /\ job = "events"
  /\ now' \in Clock
  /\ zi' = 1 /\ off' = 0 /\ records' = <<>>
  /\ page' = 1 /\ acc' = <<>> /\ hist' = <<>>
  /\ pc' = IF zones = <<>> THEN "finish" ELSE "events"
  /\ UNCHANGED <<job, specific, zones, calls, okSum, failed, raised, resp, file, writes,
                 sawFail>>

\* One (zone, window) pair of fetch_all_firewall_events.
FetchWindow ==
  /\ pc = "events"
  /\ \E r \in QueryResponses :
       LET out == fetch_firewall_events(r)
           it  == window_iter(records, out)
           last == off = WindowCount - 1
       IN  /\ resp' = r
           /\ calls' = Append(calls, [zone |-> zones[zi],
                                      geq |-> hour_start(now, off),
                                      leq |-> hour_end(now, off)])
           /\ okSum' = okSum + (IF out.tag = "list" THEN out.n ELSE 0)
           /\ failed' = failed + (IF out.tag = "list" /\ out.n > 0 THEN 0 ELSE 1)
           /\ raised' = (raised \/ out.tag = "raise")
           /\ records' = it.events
           /\ off' = IF last THEN 0 ELSE off + 1
           /\ zi' = IF last THEN zi + 1 ELSE zi
           /\ pc' = IF it.abort \/ (last /\ zi = Len(zones))
                    THEN "finish" ELSE "events"
  /\ UNCHANGED <<job, specific, zones, now, page, acc, hist, file, writes, sawFail>>

\* The shield job enters its loop over zones and calls fetch_page_shield_logs.
BeginShield ==
  /\ pc = "gotzones" /\ ~no_zones(zones) /\ job = "shield"
  /\ zi' = 1 /\ records' = <<>>
  /\ page' = 1 /\ acc' = <<>> /\ hist' = <<>>
  /\ pc' = IF zones = <<>> THEN "finish" ELSE "shield"
  /\ UNCHANGED <<job, specific, zones, off, now, calls, okSum, failed, raised, resp, file,
                 writes, sawFail>>

\* One iteration of the loop of fetch_page_shield_logs.
ShieldRequest ==
  /\ pc = "shield" /\ Len(hist) < MaxReq
  /\ \E r \in ShieldResponses :
       LET s == fetch_page_shield_logs_iter(page, acc, r)
       IN  /\ page' = s.page
           /\ acc' = s.acc
           /\ hist' = Append(hist, [req |-> page, r |-> r])
           /\ pc' = IF s.brk THEN "gotlogs" ELSE "shield"
  /\ UNCHANGED <<job, specific, zones, zi, off, now, records, calls, okSum, failed, raised,
                 resp, file, writes, sawFail>>

\* fetch_and_save_logs: the logs of one zone are collected, the next zone follows.
CollectLogs ==
  /\ pc = "gotlogs"
  /\ records' = IF acc # <<>> THEN records \o acc ELSE records
  /\ sawFail' = (sawFail \/ hist[Len(hist)].r.kind # "ok")
  /\ zi' = zi + 1
  /\ pc' = IF zi = Len(zones) THEN "finish" ELSE "shield"
  /\ page' = 1 /\ acc' = <<>> /\ hist' = <<>>
  /\ UNCHANGED <<job, specific, zones, off, now, calls, okSum, failed, raised, resp, file, writes>>

\* The end of either job: return without a write, or write the file.
ReturnNoRecords ==
  /\ pc = "finish" /\ no_records(records)
  /\ pc' = "end"
  /\ UNCHANGED <<job, specific, zones, zi, off, now, page, acc, hist, records,
                 calls, okSum, failed, raised, resp, file, writes, sawFail>>

SaveRecords ==
  /\ pc = "finish" /\ ~no_records(records)
  /\ file' = save_to_csv(records)
  /\ writes' = writes + 1
  /\ pc' = "end"
  /\ UNCHANGED <<job, specific, zones, zi, off, now, page, acc, hist, records,
                 calls, okSum, failed, raised, resp, sawFail>>

Next ==
  \/ UseSpecificZone
  \/ CallGetZones
  \/ ZonesRequest
  \/ ReturnNoZones
  \/ BeginEvents
  \/ FetchWindow
  \/ BeginShield
  \/ ShieldRequest
  \/ CollectLogs
  \/ ReturnNoRecords
  \/ SaveRecords

Spec == Init /\ [][Next]_vars

-----------------------------------------------------------------------------
\* Properties

RECURSIVE ConcatPages(_)
\* The items of the pages of history h, concatenated in request order.
ConcatPages(h) ==
  IF h = <<>> THEN <<>>
  ELSE ConcatPages(SubSeq(h, 1, Len(h) - 1)) \o PageItems(h[Len(h)].req, h[Len(h)].r.n)

Front(h) == SubSeq(h, 1, Len(h) - 1)

LastOf(h) == h[Len(h)]

\* A paginated call (get_zones or fetch_page_shield_logs) runs or has returned.
InCall == pc \in {"zones", "gotzones", "shield", "gotlogs"}

\* A paginated call (get_zones or fetch_page_shield_logs) has returned.
Returned == pc \in {"gotzones", "gotlogs"} /\ hist # <<>>

\* Every response of the call reports total_pages = N, none failed, none
\* signals failure and none is empty.
AllPagesOf(N) ==
  \A k \in 1..Len(hist) :
    /\ hist[k].r.kind = "ok"
    /\ hist[k].r.success = "true"
    /\ hist[k].r.total = {N}
    /\ hist[k].r.n > 0

\* C1: a paginated call whose responses all report total_pages = N, with no
\* failure and no empty page, issues exactly N requests, for pages 1..N in
\* order, and returns the concatenation of the pages in request order.
C1_ExactlyNPagesInOrder ==
  \A N \in 1..MaxPages :
    (Returned /\ AllPagesOf(N)) =>
      /\ Len(hist) = N
      /\ \A k \in 1..Len(hist) : hist[k].req = k
      /\ acc = ConcatPages(hist)

\* C2: in every paginated call an empty page is the last page requested: no
\* request follows it, and it adds nothing to the result.
C2_EmptyPageStops ==
  \A k \in 1..Len(hist) :
    (InCall /\ hist[k].r.kind = "ok" /\ hist[k].r.n = 0) =>
      /\ k = Len(hist)
      /\ acc = ConcatPages(Front(hist))

\* C3: in fetch_all_firewall_events a failed fetch of one (zone, window) pair
\* does not keep any other pair from being fetched, and the events returned
\* number the sum of the lengths of the successful fetches.
C3_FailedPairIsIsolated ==
  (job = "events" /\ pc \in {"finish", "end"}) =>
    /\ Len(calls) = WindowCount * Len(zones)
    /\ Len(records) = okSum

\* A fetch raised, and the fetch of a later pair, of the last zone of two, ran
\* and returned events.
C3_Witness ==
  /\ job = "events" /\ pc = "finish"
  /\ Len(zones) >= 2
  /\ raised /\ failed > 0
  /\ fetch_firewall_events(resp).tag = "list" /\ resp.n > 0

\* The instants of the model's time line around now.
Instants == (now - 3 * WindowHours)..(now + WindowHours)

\* The calls of zone z are the two windows [now-12h, now] and [now-24h, now-12h].
TwoWindowsOf(z) ==
  LET a == calls[WindowCount * (z - 1) + 1]
      b == calls[WindowCount * (z - 1) + 2]
  IN  /\ a.zone = zones[z] /\ b.zone = zones[z]
      /\ a.geq = now - WindowHours /\ a.leq = now
      /\ b.geq = now - 2 * WindowHours /\ b.leq = now - WindowHours

\* The instants both windows of zone z select.
SharedInstants(z) ==
  {t \in Instants : /\ Covers(calls[WindowCount * (z - 1) + 1], t)
                    /\ Covers(calls[WindowCount * (z - 1) + 2], t)}

\* C4 (as stated): fetch_all_firewall_events over Z zones issues 2*Z calls, two
\* per zone, with the windows [now-24h, now-12h) and [now-12h, now) of one now,
\* and no instant lies in both windows of a zone.
C4_HalfOpenWindows ==
  (job = "events" /\ pc \in {"finish", "end"}) =>
    /\ Len(calls) = 2 * Len(zones)
    /\ \A z \in 1..Len(zones) : TwoWindowsOf(z) /\ SharedInstants(z) = {}

\* C4 (amended): fetch_all_firewall_events over Z zones issues 2*Z calls, two
\* per zone, with the closed windows [now-24h, now-12h] and [now-12h, now] of
\* one now; the two windows of a zone share exactly the instant now-12h.
C4_ClosedWindows ==
  (job = "events" /\ pc \in {"finish", "end"}) =>
    /\ Len(calls) = 2 * Len(zones)
    /\ \A z \in 1..Len(zones) :
         TwoWindowsOf(z) /\ SharedInstants(z) = {now - WindowHours}

\* fetch_all_firewall_events has gone through the windows of two zones.
C4_Witness ==
  job = "events" /\ pc = "finish" /\ Len(zones) >= 2 /\ Len(calls) = 2 * Len(zones)

\* C5: when the request for page k of a paginated call fails, the call
\* returns normally, issues no further request and returns the items of pages
\* 1..k-1; in the shield job every zone is still fetched after such a failure.
C5_FailedPageKeepsPartial ==
  /\ (InCall /\ hist # <<>> /\ LastOf(hist).r.kind \in {"neterr", "http"}) =>
       /\ pc \in {"gotzones", "gotlogs"}
       /\ LastOf(hist).req = Len(hist)
       /\ acc = ConcatPages(Front(hist))
       /\ (pc = "gotzones" => zones = acc)
  /\ \A k \in 1..Len(hist) :
       hist[k].r.kind \in {"neterr", "http"} => k = Len(hist)
  /\ (job = "shield" /\ sawFail /\ pc \in {"finish", "end"}) =>
       zi = Len(zones) + 1

\* In the shield job, after a failed page request for an earlier zone, the
\* request for page k >= 2 of a later zone fails with logs accumulated.
C5_Witness ==
  /\ job = "shield" /\ pc = "gotlogs" /\ sawFail /\ zi >= 2
  /\ Len(hist) >= 2
  /\ LastOf(hist).r.kind \in {"neterr", "http"}
  /\ acc # <<>>

\* No zone comes back in response r of the query endpoint.
ZoneEmpty(r) ==
  \/ r.kind # "json"
  \/ r.data # "obj" \/ r.viewer # "obj" \/ r.zones # "some"

\* C6: fetch_firewall_events never raises: on every response it returns a
\* sequence, the empty one on every failure and on a response with no zones.
C6_NeverRaises ==
  resp.kind # "none" =>
    /\ fetch_firewall_events(resp).tag = "list"
    /\ ZoneEmpty(resp) => fetch_firewall_events(resp).n = 0

\* The last page request of the running fetch_page_shield_logs got a response.
ShieldGotPage ==
  /\ pc \in {"shield", "gotlogs"} /\ hist # <<>>
  /\ LastOf(hist).r.kind = "ok"

\* The loop goes on after a page that was added, by the rule page >= total_pages.
ContinuesByPageRule ==
  /\ acc = ConcatPages(hist)
  /\ (pc = "gotlogs") <=> (LastOf(hist).req >= Get(LastOf(hist).r.total, 1))

\* C7 (as stated): a page-shield response with no success flag is not a
\* failure: its non-empty result is added and pagination goes on by the page
\* rule.
C7_OnlyFalseFlagStops ==
  (ShieldGotPage /\ LastOf(hist).r.success = "absent" /\ LastOf(hist).r.n > 0) =>
    ContinuesByPageRule

\* C7 (amended): fetch_page_shield_logs stops on a success flag that is false
\* or absent, adding nothing of that response; a non-empty page whose flag is
\* true is added and pagination goes on by the page rule.
C7_AbsentOrFalseFlagStops ==
  ShieldGotPage =>
    /\ LastOf(hist).r.success # "true" =>
         (pc = "gotlogs" /\ acc = ConcatPages(Front(hist)))
    /\ (LastOf(hist).r.success = "true" /\ LastOf(hist).r.n > 0) =>
         ContinuesByPageRule

\* A page >= 2 of fetch_page_shield_logs comes with items and no success flag.
C7_Witness ==
  /\ ShieldGotPage /\ pc = "gotlogs"
  /\ Len(hist) >= 2
  /\ LastOf(hist).r.success = "absent" /\ LastOf(hist).r.n > 0

\* C8: a job whose zone set is empty exits early: no fetch request of events
\* or page-shield logs, no write of the output file.
C8_EmptyZonesExitEarly ==
  (pc \notin {"start", "zones"} /\ zones = <<>>) =>
    /\ pc \in {"gotzones", "end"}
    /\ calls = <<>>
    /\ writes = 0
    /\ file = OldFile

\* get_zones answered with no zone and the shield job has ended.
C8_Witness ==
  pc = "end" /\ zones = <<>> /\ hist # <<>> /\ job = "shield"

\* C9: a paginated call issues at most N page requests when no response
\* reports total_pages above N, whatever page number the responses report.
C9_AtMostNRequests ==
  InCall => Len(hist) <= MaxPages

\* C10: the output file is written if and only if the run collected at least
\* one record, then once and after the last fetch; a run with no record
\* leaves the file as it was.
C10_WriteIffRecords ==
  /\ writes <= 1
  /\ writes = 1 => (pc = "end" /\ records # <<>> /\ file = save_to_csv(records))
  /\ writes = 0 => file = OldFile
  /\ pc = "end" => (writes = 1 <=> records # <<>>)

\* The events job fetched its windows, collected nothing and ended.
C10_Witness ==
  /\ pc = "end" /\ job = "events"
  /\ calls # <<>> /\ records = <<>>
  /\ writes = 0 /\ file = OldFile

====
